---- MODULE Spec2Model ----
(***************************************************************************)
(* Reservation, availability, pricing and lifecycle logic of the           *)
(* accommodation and food_dining apps (Django REST framework viewsets,     *)
(* serializers and models).  One action per request handler; every action  *)
(* is the whole handler: object lookup, serializer validation, the model's *)
(* save() and the response.  Money is an integer number of cents (the      *)
(* models use DecimalField with decimal_places=2), dates are day numbers.  *)
(***************************************************************************)
EXTENDS Integers, FiniteSets, Sequences, TLC

VARIABLES
    stayBookings,   \* AccommodationBooking rows: id -> record
    availability,   \* AccommodationAvailability rows: <<room_type, date>> -> record
    foodBookings,   \* FoodBooking rows: id -> record
    orderItems,     \* OrderItem rows: set of records
    menuPrice,      \* MenuItem.price of every menu item
    response,       \* the response of the request handled last
    lastCreate,     \* history: the stay creation handled last, with the capacity before it
    requests,       \* stay creation requests in flight (concurrent workers)
    lastId,         \* how many ids (uuid4 primary keys) each booking table has handed out
    catalog,        \* the catalog rows: Accommodation, Restaurant, RoomType, Table, MenuItem
    calls,          \* confirm and cancel requests in flight, each with the instance it loaded
    listing         \* the rows the query handled last returned

vars == <<stayBookings, availability, foodBookings, orderItems, menuPrice, response,
         lastCreate, requests, lastId, catalog, calls, listing>>

foodVars == <<foodBookings, orderItems, menuPrice>>

----------------------------------------------------------------------------
(* Bounds of the model *)

MaxBookings == 1      \* bookings of both domains together, lifecycle specification
MaxStay == 3          \* stay bookings, stay specification
MaxFood == 1          \* dining bookings, dining specification
MaxPriced == 1        \* stay bookings, pricing specification
MaxDay == 5           \* dates are 1..MaxDay
MaxScope == 1         \* bookings of both domains together, scope specification
MaxRef == 2           \* bookings of both domains together, reference specification
MaxAtomic == 1        \* stay bookings, atomicity specification
MaxOrders == 1        \* dining bookings, orders specification
MaxResources == 2     \* bookings of both domains together, resources specification

(* Program values *)

Absent == 0 - 1       \* a number the request does not carry / a NULL column
                      \* (an absent string is "Absent", a NULL one "None")
Today == 2            \* date.today()
AccTotalRooms == 2    \* Accommodation.total_rooms of the accommodation a1
RoomTypeTotalRooms == 1  \* RoomType.total_rooms of its room type rt1

Days == 1..MaxDay
Times == {1, 2}                  \* the values timezone.now() yields
Users == {"u1", "u2"}
RoomTypes == {"None", "rt1"}     \* room_type is nullable: "None" books the accommodation

StayStatuses == {"pending", "confirmed", "checked_in", "checked_out", "cancelled", "no_show"}

FoodStatuses == {"pending", "confirmed", "preparing", "ready", "out_for_delivery",
                 "delivered", "completed", "cancelled", "no_show"}

BookingTypes == {"reservation", "delivery", "takeout", "catering"}

NoRef == [prefix |-> "", sep |-> "", tenant |-> "", suffix |-> 0]

NoResponse == [op |-> "none", domain |-> "none", id |-> 0, result |-> "none"]

Resp(op, domain, id, result) == [op |-> op, domain |-> domain, id |-> id, result |-> result]

NoCreate == [id |-> 0, released |-> 0, avail |-> <<>>, booked |-> <<>>]

ResourceTotalRooms(rt) == IF rt = "None" THEN AccTotalRooms ELSE RoomTypeTotalRooms

----------------------------------------------------------------------------
(* Lodging: AccommodationBooking *)

\* uuid.uuid4: an id no row of the table has had
NextId(handed_out) == handed_out + 1

\* AccommodationBooking.generate_booking_reference: f"{prefix}{self.profile_id}{suffix}"
StayGenerateBookingReference(b, sfx) ==
    [prefix |-> "ACC", sep |-> "", tenant |-> b.profile_id, suffix |-> sfx]

\* StaySave with the subtotal of a single room
StaySaveIgnoresRooms(b, sfx) ==
    LET ref == IF b.booking_reference = NoRef
               THEN StayGenerateBookingReference(b, sfx)
               ELSE b.booking_reference
        nights == b.check_out_date - b.check_in_date
        sub == b.room_rate * nights
    IN [b EXCEPT !.booking_reference = ref,
                 !.total_nights = nights,
                 !.subtotal = sub,
                 !.total_amount = sub + b.taxes + b.fees]

\* StaySave that generates a reference at every save
StaySaveRegenerates(b, sfx) ==
    LET nights == b.check_out_date - b.check_in_date
        sub == b.room_rate * nights * b.number_of_rooms
    IN [b EXCEPT !.booking_reference = StayGenerateBookingReference(b, sfx),
                 !.total_nights = nights,
                 !.subtotal = sub,
                 !.total_amount = sub + b.taxes + b.fees]

\* AccommodationBooking.save, the part before super().save()
StaySave(b, sfx) ==
    LET ref == IF b.booking_reference = NoRef
               THEN StayGenerateBookingReference(b, sfx)
               ELSE b.booking_reference
        nights == b.check_out_date - b.check_in_date
        sub == b.room_rate * nights * b.number_of_rooms
    IN [b EXCEPT !.booking_reference = ref,
                 !.total_nights = nights,
                 !.subtotal = sub,
                 !.total_amount = sub + b.taxes + b.fees]

\* super().save(): the row is written unless a column constraint rejects it
\* (total_nights is a PositiveIntegerField, booking_reference is unique)
StayRowAccepted(id, b) ==
    /\ b.total_nights >= 0
    /\ b.number_of_rooms >= 0
    /\ \A other \in DOMAIN stayBookings \ {id} :
          stayBookings[other].booking_reference # b.booking_reference

\* the writable fields of AccommodationBookingSerializer a request may carry
StayData(rt, ci, co, rooms, rate, taxes, fees, st) ==
    [room_type |-> rt, check_in_date |-> ci, check_out_date |-> co,
     number_of_rooms |-> rooms, room_rate |-> rate, taxes |-> taxes, fees |-> fees,
     status |-> st]

\* a request that carries none of them
NoStayData == StayData("Absent", Absent, Absent, Absent, Absent, Absent, Absent, "Absent")

\* AccommodationBookingSerializer.validate
StayValidate(data) ==
    IF data.check_in_date # Absent /\ data.check_out_date # Absent
    THEN /\ ~(data.check_out_date <= data.check_in_date)
         /\ ~(data.check_in_date < Today)
    ELSE TRUE

\* PrimaryKeyRelatedField of accommodation and room_type: the rows a request names exist
StayRelatedExist(data) ==
    /\ catalog["accommodation"].present
    /\ data.room_type = "rt1" => catalog["room_type"].present

\* fields the model requires and the serializer therefore requires on create
StayRequiredPresent(data) ==
    /\ data.check_in_date # Absent
    /\ data.check_out_date # Absent
    /\ data.room_rate # Absent

\* StayVisible that shows every booking to whoever sends a header
StayVisibleAnyHeader(user, hdr, b) == hdr # "None" \/ b.guest_user_id = user

\* AccommodationBookingViewSet.get_queryset
StayVisible(user, hdr, b) ==
    IF hdr # "None"
    THEN b.guest_user_id = user \/ b.profile_id = hdr
    ELSE b.guest_user_id = user

\* rooms held on date d of resource rt by bookings that are not cancelled/no_show
BookedRooms(rows, rt, d) ==
    LET Holding == {i \in DOMAIN rows :
                       /\ rows[i].room_type = rt
                       /\ rows[i].status \notin {"cancelled", "no_show"}
                       /\ rows[i].check_in_date <= d
                       /\ d < rows[i].check_out_date}
        RECURSIVE Sum(_)
        Sum(S) == IF S = {} THEN 0
                  ELSE LET i == CHOOSE x \in S : TRUE
                       IN rows[i].number_of_rooms + Sum(S \ {i})
    IN Sum(Holding)

Booked(rows) == [rt \in RoomTypes, d \in Days |-> BookedRooms(rows, rt, d)]

\* ModelSerializer.create with the keyword arguments of perform_create
StayNewInstance(user, hdr, data) ==
    [guest_user_id |-> user,
     profile_id |-> IF hdr # "None" THEN hdr ELSE "customer",
     room_type |-> IF data.room_type = "Absent" THEN "None" ELSE data.room_type,
     check_in_date |-> data.check_in_date,
     check_out_date |-> data.check_out_date,
     number_of_rooms |-> IF data.number_of_rooms = Absent THEN 1 ELSE data.number_of_rooms,
     room_rate |-> data.room_rate,
     taxes |-> IF data.taxes = Absent THEN 0 ELSE data.taxes,
     fees |-> IF data.fees = Absent THEN 0 ELSE data.fees,
     total_nights |-> Absent,
     subtotal |-> Absent,
     total_amount |-> Absent,
     status |-> IF data.status = "Absent" THEN "pending" ELSE data.status,
     confirmation_date |-> Absent,
     cancellation_date |-> Absent,
     booking_reference |-> NoRef]

\* POST /bookings/: AccommodationBookingViewSet.create -> perform_create
StayCreate(user, hdr, data, sfx) ==
    LET id == NextId(lastId.stay)
        b == StaySave(StayNewInstance(user, hdr, data), sfx)
    IN /\ IF StayRequiredPresent(data) /\ StayRelatedExist(data) /\ StayValidate(data)
          THEN IF StayRowAccepted(id, b)
               THEN /\ stayBookings' = stayBookings @@ (id :> b)
                    /\ lastCreate' = [id |-> id, released |-> 0, avail |-> availability,
                                      booked |-> Booked(stayBookings)]
                    /\ response' = Resp("create", "stay", id, "created")
               ELSE /\ UNCHANGED stayBookings
                    /\ lastCreate' = NoCreate
                    /\ response' = Resp("create", "stay", 0, "server_error")
          ELSE /\ UNCHANGED stayBookings
               /\ lastCreate' = NoCreate
               /\ response' = Resp("create", "stay", 0, "bad_request")
       /\ lastId' = IF response'.result = "created"
                    THEN [lastId EXCEPT !.stay = id] ELSE lastId
       /\ UNCHANGED <<availability, foodVars, requests, catalog, calls, listing>>

\* confirm: if booking.status != 'pending' -> 400
StayConfirmRejected(b) == b.status # "pending"

\* confirm: the assignments before booking.save()
StayConfirmed(b, t) == [b EXCEPT !.status = "confirmed", !.confirmation_date = t]

\* POST /bookings/{id}/confirm/: AccommodationBookingViewSet.confirm
StayConfirm(user, hdr, id, t) ==
    /\ lastCreate' = NoCreate
    /\ IF id \notin DOMAIN stayBookings \/ ~StayVisible(user, hdr, stayBookings[id])
       THEN /\ response' = Resp("confirm", "stay", id, "not_found")
            /\ UNCHANGED stayBookings
       ELSE IF StayConfirmRejected(stayBookings[id])
       THEN /\ response' = Resp("confirm", "stay", id, "bad_request")
            /\ UNCHANGED stayBookings
       ELSE LET b == StaySave(StayConfirmed(stayBookings[id], t), 0)
            IN IF StayRowAccepted(id, b)
               THEN /\ stayBookings' = [stayBookings EXCEPT ![id] = b]
                    /\ response' = Resp("confirm", "stay", id, "ok")
               ELSE /\ UNCHANGED stayBookings
                    /\ response' = Resp("confirm", "stay", id, "server_error")
    /\ UNCHANGED <<availability, foodVars, requests, lastId, catalog, calls, listing>>

\* cancel: if booking.status in ['completed', 'cancelled'] -> 400
StayCancelRejected(b) == b.status \in {"completed", "cancelled"}

\* StayCancelled that stamps the date and leaves the status
StayCancelledDateOnly(b, t) == [b EXCEPT !.cancellation_date = t]

\* cancel: the assignments before booking.save()
StayCancelled(b, t) == [b EXCEPT !.status = "cancelled", !.cancellation_date = t]

\* POST /bookings/{id}/cancel/: AccommodationBookingViewSet.cancel
StayCancel(user, hdr, id, t) ==
    /\ IF id \notin DOMAIN stayBookings \/ ~StayVisible(user, hdr, stayBookings[id])
       THEN /\ response' = Resp("cancel", "stay", id, "not_found")
            /\ UNCHANGED stayBookings
       ELSE IF StayCancelRejected(stayBookings[id])
       THEN /\ response' = Resp("cancel", "stay", id, "bad_request")
            /\ UNCHANGED stayBookings
       ELSE LET b == StaySave(StayCancelled(stayBookings[id], t), 0)
            IN IF StayRowAccepted(id, b)
               THEN /\ stayBookings' = [stayBookings EXCEPT ![id] = b]
                    /\ response' = Resp("cancel", "stay", id, "ok")
               ELSE /\ UNCHANGED stayBookings
                    /\ response' = Resp("cancel", "stay", id, "server_error")
    /\ lastCreate' = IF response'.result = "ok" /\ lastCreate.id = id
                     THEN [lastCreate EXCEPT !.id = 0, !.released = id]
                     ELSE NoCreate
    /\ UNCHANGED <<availability, foodVars, requests, lastId, catalog, calls, listing>>

\* ModelSerializer.update: setattr for every field the request carries
StayApply(b, data) ==
    [b EXCEPT
       !.room_type = IF data.room_type = "Absent" THEN @ ELSE data.room_type,
       !.check_in_date = IF data.check_in_date = Absent THEN @ ELSE data.check_in_date,
       !.check_out_date = IF data.check_out_date = Absent THEN @ ELSE data.check_out_date,
       !.number_of_rooms = IF data.number_of_rooms = Absent THEN @ ELSE data.number_of_rooms,
       !.room_rate = IF data.room_rate = Absent THEN @ ELSE data.room_rate,
       !.taxes = IF data.taxes = Absent THEN @ ELSE data.taxes,
       !.fees = IF data.fees = Absent THEN @ ELSE data.fees,
       !.status = IF data.status = "Absent" THEN @ ELSE data.status]

\* PUT/PATCH /bookings/{id}/: UpdateModelMixin.update with AccommodationBookingSerializer
StayUpdate(user, hdr, id, data, partial) ==
    /\ lastCreate' = NoCreate
    /\ IF id \notin DOMAIN stayBookings \/ ~StayVisible(user, hdr, stayBookings[id])
       THEN /\ response' = Resp("update", "stay", id, "not_found")
            /\ UNCHANGED stayBookings
       ELSE IF ~((partial \/ StayRequiredPresent(data)) /\ StayValidate(data))
       THEN /\ response' = Resp("update", "stay", id, "bad_request")
            /\ UNCHANGED stayBookings
       ELSE LET b == StaySave(StayApply(stayBookings[id], data), 0)
            IN IF StayRowAccepted(id, b)
               THEN /\ stayBookings' = [stayBookings EXCEPT ![id] = b]
                    /\ response' = Resp("update", "stay", id, "ok")
               ELSE /\ UNCHANGED stayBookings
                    /\ response' = Resp("update", "stay", id, "server_error")
    /\ UNCHANGED <<availability, foodVars, requests, lastId, catalog, calls, listing>>

\* AccommodationAvailabilitySerializer.validate
AvailabilityValidate(data) == ~(data.available_rooms < 0)

\* a tenant calendar edit: AccommodationAvailabilitySerializer validates the row
\* and ModelSerializer saves it (one row per accommodation, room_type and date)
CalendarEdit(rt, d, data) ==
    /\ lastCreate' = NoCreate
    /\ IF AvailabilityValidate(data)
       THEN /\ availability' =
                 IF <<rt, d>> \in DOMAIN availability
                 THEN [availability EXCEPT ![<<rt, d>>] = data]
                 ELSE availability @@ (<<rt, d>> :> data)
            /\ response' = Resp("calendar", "stay", d, "ok")
       ELSE /\ UNCHANGED availability
            /\ response' = Resp("calendar", "stay", d, "bad_request")
    /\ UNCHANGED <<stayBookings, foodVars, requests, lastId, catalog, calls, listing>>


----------------------------------------------------------------------------
(* Dining: FoodBooking and OrderItem *)

MenuItems == {"m1", "m2"}

\* FoodBooking.generate_booking_reference: f"{prefix}-{self.profile_id}-{suffix}"
FoodGenerateBookingReference(b, sfx) ==
    [prefix |-> "FD", sep |-> "-", tenant |-> b.profile_id, suffix |-> sfx]

\* the total FoodBooking.save and FoodBookingSerializer.create both compute
FoodTotal(b) ==
    b.subtotal + b.delivery_fee + b.service_charge + b.taxes + b.tip_amount - b.discount_amount

\* FoodSave that computes the total at the first save only
FoodSaveTotalOnce(b, sfx) ==
    LET ref == IF b.booking_reference = NoRef
               THEN FoodGenerateBookingReference(b, sfx)
               ELSE b.booking_reference
    IN [b EXCEPT !.booking_reference = ref,
                 !.total_amount = IF @ = Absent THEN FoodTotal(b) ELSE @]

\* FoodBooking.save, the part before super().save()
FoodSave(b, sfx) ==
    LET ref == IF b.booking_reference = NoRef
               THEN FoodGenerateBookingReference(b, sfx)
               ELSE b.booking_reference
    IN [b EXCEPT !.booking_reference = ref, !.total_amount = FoodTotal(b)]

\* super().save(): booking_reference is unique
FoodRowAccepted(id, b) ==
    \A other \in DOMAIN foodBookings \ {id} :
        foodBookings[other].booking_reference # b.booking_reference

\* the writable fields of FoodBookingSerializer a request may carry
NoMoney ==
    [subtotal |-> Absent, delivery_fee |-> Absent, service_charge |-> Absent,
     taxes |-> Absent, discount_amount |-> Absent, tip_amount |-> Absent]

FoodData(kind, rdate, rtime, addr, edate, eloc, money, st, items) ==
    [booking_type |-> kind, reservation_date |-> rdate, reservation_time |-> rtime,
     delivery_address |-> addr, event_date |-> edate, event_location |-> eloc,
     subtotal |-> money.subtotal, delivery_fee |-> money.delivery_fee,
     service_charge |-> money.service_charge, taxes |-> money.taxes,
     discount_amount |-> money.discount_amount, tip_amount |-> money.tip_amount,
     status |-> st, order_items |-> items, table |-> "Absent"]

NoFoodData == FoodData("Absent", Absent, Absent, "Absent", Absent, "Absent", NoMoney, "Absent", <<>>)

\* FoodBookingSerializer.validate; data.get(...) of a missing key is None,
\* and None, '' are both false
FoodValidate(data) ==
    IF data.booking_type = "reservation"
    THEN ~(data.reservation_date = Absent \/ data.reservation_time = Absent)
    ELSE IF data.booking_type = "delivery"
    THEN ~(data.delivery_address \in {"Absent", ""})
    ELSE IF data.booking_type = "catering"
    THEN ~(data.event_date = Absent \/ data.event_location \in {"Absent", ""})
    ELSE TRUE

\* PrimaryKeyRelatedField of restaurant and table: the rows a request names exist
FoodRelatedExist(data) ==
    /\ catalog["restaurant"].present
    /\ data.table = "t1" => catalog["table"].present

\* FoodBookingViewSet.get_queryset
FoodVisible(user, hdr, b) ==
    IF hdr # "None"
    THEN b.customer_user_id = user \/ b.profile_id = hdr
    ELSE b.customer_user_id = user

Default(v, d) == IF v = Absent THEN d ELSE v

\* ModelSerializer.create with the keyword arguments of perform_create;
\* a field the request omits takes the model's default
FoodNewInstance(user, hdr, data) ==
    [customer_user_id |-> user,
     profile_id |-> IF hdr # "None" THEN hdr ELSE "customer",
     booking_type |-> IF data.booking_type = "Absent" THEN "reservation" ELSE data.booking_type,
     table |-> IF data.table = "Absent" THEN "None" ELSE data.table,
     reservation_date |-> data.reservation_date,
     reservation_time |-> data.reservation_time,
     delivery_address |-> IF data.delivery_address = "Absent" THEN "" ELSE data.delivery_address,
     event_date |-> data.event_date,
     event_location |-> IF data.event_location = "Absent" THEN "" ELSE data.event_location,
     subtotal |-> Default(data.subtotal, 0),
     delivery_fee |-> Default(data.delivery_fee, 0),
     service_charge |-> Default(data.service_charge, 0),
     taxes |-> Default(data.taxes, 0),
     discount_amount |-> Default(data.discount_amount, 0),
     tip_amount |-> Default(data.tip_amount, 0),
     total_amount |-> Absent,
     status |-> IF data.status = "Absent" THEN "pending" ELSE data.status,
     confirmation_date |-> Absent,
     preparation_start_time |-> Absent,
     ready_time |-> Absent,
     delivery_start_time |-> Absent,
     completion_time |-> Absent,
     cancellation_date |-> Absent,
     booking_reference |-> NoRef]

\* OrderItem.objects.create(booking=booking, **item_data) after
\* item_data['unit_price'] = menu_item.price; OrderItem.save sets total_price
NewOrderItem(id, n, item) ==
    LET qty == Default(item.quantity, 1)
        price == menuPrice[item.menu_item]
    IN [booking |-> id, line |-> n, menu_item |-> item.menu_item, quantity |-> qty,
        unit_price |-> price, total_price |-> price * qty]

RECURSIVE SumTotalPrice(_)
SumTotalPrice(items) ==
    IF items = {} THEN 0
    ELSE LET i == CHOOSE x \in items : TRUE
         IN i.total_price + SumTotalPrice(items \ {i})

\* amounts are counted in cents; a DecimalField(max_digits=10, decimal_places=2)
\* stores amounts below DecimalScale * DecimalScale cents
DecimalScale == 100000

\* OrderItem.save: total_price = unit_price * quantity is stored in
\* DecimalField(max_digits=10, decimal_places=2); a longer value raises when the row
\* is written. The comparison unit_price * quantity < DecimalScale^2 is made without
\* forming the product (exact for unit prices below 21474 cents)
OrderItemStored(item) ==
    LET qty == Default(item.quantity, 1)
        price == menuPrice[item.menu_item]
    IN price * (qty \div DecimalScale) + (price * (qty % DecimalScale)) \div DecimalScale
          < DecimalScale

\* the rows FoodBookingSerializer.create has written when it reaches order line n:
\* the booking of the first save and the lines before n
FoodWritten(id, first, lines, n) ==
    [bookings |-> (id :> first),
     items |-> {NewOrderItem(id, k, lines[k]) : k \in {k \in DOMAIN lines : k < n}}]

NoRows == [bookings |-> <<>>, items |-> {}]

\* create without a transaction: the rows written before the exception stay
TransactionKeepsRows(rows) == rows

\* @transaction.atomic on create: an exception that leaves the block rolls back
\* every row written inside it
TransactionAtomic(rows) == NoRows

\* POST /bookings/: FoodBookingViewSet.create -> perform_create ->
\* FoodBookingSerializer.create (one transaction)
FoodCreate(user, hdr, data, sfx) ==
    LET id == NextId(lastId.food)
        first == FoodSave(FoodNewInstance(user, hdr, data), sfx)
        lines == data.order_items
        raising == {n \in DOMAIN lines : ~OrderItemStored(lines[n])}
        items == {NewOrderItem(id, n, lines[n]) : n \in DOMAIN lines}
        priced == [first EXCEPT !.subtotal = SumTotalPrice(items)]
        b == FoodSave([priced EXCEPT !.total_amount = FoodTotal(priced)], sfx)
    IN /\ IF FoodRelatedExist(data) /\ FoodValidate(data)
          THEN IF ~FoodRowAccepted(id, first)
               THEN /\ UNCHANGED <<foodBookings, orderItems>>
                    /\ response' = Resp("create", "food", 0, "server_error")
               ELSE IF raising # {}
               THEN LET n == CHOOSE k \in raising : \A j \in raising : k <= j
                        kept == TransactionAtomic(FoodWritten(id, first, lines, n))
                    IN /\ foodBookings' = foodBookings @@ kept.bookings
                       /\ orderItems' = orderItems \cup kept.items
                       /\ response' = Resp("create", "food", 0, "server_error")
               ELSE IF ~FoodRowAccepted(id, b)
               THEN LET kept == TransactionAtomic(FoodWritten(id, first, lines, Len(lines) + 1))
                    IN /\ foodBookings' = foodBookings @@ kept.bookings
                       /\ orderItems' = orderItems \cup kept.items
                       /\ response' = Resp("create", "food", 0, "server_error")
               ELSE /\ foodBookings' = foodBookings @@ (id :> b)
                    /\ orderItems' = orderItems \cup items
                    /\ response' = Resp("create", "food", id, "created")
          ELSE /\ UNCHANGED <<foodBookings, orderItems>>
               /\ response' = Resp("create", "food", 0, "bad_request")
       /\ lastCreate' = NoCreate
       /\ lastId' = IF response'.result = "created"
                    THEN [lastId EXCEPT !.food = id] ELSE lastId
       /\ UNCHANGED <<stayBookings, availability, menuPrice, requests, catalog, calls, listing>>

\* FoodConfirmRejected that refuses cancelled bookings only
FoodConfirmRejectedCancelledOnly(b) == b.status = "cancelled"

\* confirm: if booking.status != 'pending' -> 400
FoodConfirmRejected(b) == b.status # "pending"

\* confirm: the assignments before booking.save()
FoodConfirmed(b, t) == [b EXCEPT !.status = "confirmed", !.confirmation_date = t]

\* POST /bookings/{id}/confirm/: FoodBookingViewSet.confirm
FoodConfirm(user, hdr, id, t) ==
    /\ IF id \notin DOMAIN foodBookings \/ ~FoodVisible(user, hdr, foodBookings[id])
       THEN /\ response' = Resp("confirm", "food", id, "not_found")
            /\ UNCHANGED foodBookings
       ELSE IF FoodConfirmRejected(foodBookings[id])
       THEN /\ response' = Resp("confirm", "food", id, "bad_request")
            /\ UNCHANGED foodBookings
       ELSE /\ foodBookings' = [foodBookings EXCEPT ![id] = FoodSave(FoodConfirmed(@, t), 0)]
            /\ response' = Resp("confirm", "food", id, "ok")
    /\ lastCreate' = NoCreate
    /\ UNCHANGED <<stayBookings, availability, orderItems, menuPrice, requests, lastId, catalog, calls, listing>>

\* FoodCancelRejected with the status list of the lodging cancel
FoodCancelRejectedLodgingList(b) == b.status \in {"completed", "cancelled"}

\* cancel: if booking.status in ['completed', 'delivered', 'cancelled'] -> 400
FoodCancelRejected(b) == b.status \in {"completed", "delivered", "cancelled"}

\* cancel: the assignments before booking.save()
FoodCancelled(b, t) == [b EXCEPT !.status = "cancelled", !.cancellation_date = t]

\* POST /bookings/{id}/cancel/: FoodBookingViewSet.cancel
FoodCancel(user, hdr, id, t) ==
    /\ IF id \notin DOMAIN foodBookings \/ ~FoodVisible(user, hdr, foodBookings[id])
       THEN /\ response' = Resp("cancel", "food", id, "not_found")
            /\ UNCHANGED foodBookings
       ELSE IF FoodCancelRejected(foodBookings[id])
       THEN /\ response' = Resp("cancel", "food", id, "bad_request")
            /\ UNCHANGED foodBookings
       ELSE /\ foodBookings' = [foodBookings EXCEPT ![id] = FoodSave(FoodCancelled(@, t), 0)]
            /\ response' = Resp("cancel", "food", id, "ok")
    /\ lastCreate' = NoCreate
    /\ UNCHANGED <<stayBookings, availability, orderItems, menuPrice, requests, lastId, catalog, calls, listing>>

\* FoodBooking.BookingStatus: the model class has no such attribute (BookingStatus
\* is a class of the models module), so evaluating it raises AttributeError
FoodBookingHasBookingStatus == FALSE

\* the timestamp update_status stamps for a status
FoodStamp(b, new_status, t) ==
    IF new_status = "preparing" THEN [b EXCEPT !.preparation_start_time = t]
    ELSE IF new_status = "ready" THEN [b EXCEPT !.ready_time = t]
    ELSE IF new_status = "out_for_delivery" THEN [b EXCEPT !.delivery_start_time = t]
    ELSE IF new_status \in {"delivered", "completed"} THEN [b EXCEPT !.completion_time = t]
    ELSE b

\* POST /bookings/{id}/update_status/: FoodBookingViewSet.update_status
FoodUpdateStatus(user, hdr, id, new_status, t) ==
    /\ IF id \notin DOMAIN foodBookings \/ ~FoodVisible(user, hdr, foodBookings[id])
       THEN /\ response' = Resp("update_status", "food", id, "not_found")
            /\ UNCHANGED foodBookings
       ELSE IF new_status \in {"Absent", ""}
       THEN /\ response' = Resp("update_status", "food", id, "bad_request")
            /\ UNCHANGED foodBookings
       ELSE IF ~FoodBookingHasBookingStatus
       THEN /\ response' = Resp("update_status", "food", id, "server_error")
            /\ UNCHANGED foodBookings
       ELSE IF new_status \notin FoodStatuses
       THEN /\ response' = Resp("update_status", "food", id, "bad_request")
            /\ UNCHANGED foodBookings
       ELSE /\ foodBookings' = [foodBookings EXCEPT
                                  ![id] = FoodSave(FoodStamp([@ EXCEPT !.status = new_status],
                                                             new_status, t), 0)]
            /\ response' = Resp("update_status", "food", id, "ok")
    /\ lastCreate' = NoCreate
    /\ UNCHANGED <<stayBookings, availability, orderItems, menuPrice, requests, lastId, catalog, calls, listing>>

\* ModelSerializer.update: setattr for every field the request carries
FoodApply(b, data) ==
    [b EXCEPT
       !.booking_type = IF data.booking_type = "Absent" THEN @ ELSE data.booking_type,
       !.table = IF data.table = "Absent" THEN @ ELSE data.table,
       !.reservation_date = Default(data.reservation_date, @),
       !.reservation_time = Default(data.reservation_time, @),
       !.delivery_address = IF data.delivery_address = "Absent" THEN @ ELSE data.delivery_address,
       !.event_date = Default(data.event_date, @),
       !.event_location = IF data.event_location = "Absent" THEN @ ELSE data.event_location,
       !.subtotal = Default(data.subtotal, @),
       !.delivery_fee = Default(data.delivery_fee, @),
       !.service_charge = Default(data.service_charge, @),
       !.taxes = Default(data.taxes, @),
       !.discount_amount = Default(data.discount_amount, @),
       !.tip_amount = Default(data.tip_amount, @),
       !.status = IF data.status = "Absent" THEN @ ELSE data.status]

\* PUT/PATCH /bookings/{id}/: UpdateModelMixin.update with FoodBookingSerializer;
\* ModelSerializer.update refuses a request that carries the nested order_items
FoodUpdate(user, hdr, id, data) ==
    /\ IF id \notin DOMAIN foodBookings \/ ~FoodVisible(user, hdr, foodBookings[id])
       THEN /\ response' = Resp("update", "food", id, "not_found")
            /\ UNCHANGED foodBookings
       ELSE IF ~(FoodRelatedExist(data) /\ FoodValidate(data))
       THEN /\ response' = Resp("update", "food", id, "bad_request")
            /\ UNCHANGED foodBookings
       ELSE IF data.order_items # <<>>
       THEN /\ response' = Resp("update", "food", id, "server_error")
            /\ UNCHANGED foodBookings
       ELSE /\ foodBookings' = [foodBookings EXCEPT ![id] = FoodSave(FoodApply(@, data), 0)]
            /\ response' = Resp("update", "food", id, "ok")
    /\ lastCreate' = NoCreate
    /\ UNCHANGED <<stayBookings, availability, orderItems, menuPrice, requests, lastId, catalog, calls, listing>>

----------------------------------------------------------------------------
(* Concurrent stay creations: each worker handles one POST /bookings/ request, *)
(* and the steps of different workers interleave.                             *)

Workers == 1..(AccTotalRooms + 1)

IdleRequest == [pc |-> "idle", data |-> NoStayData, result |-> "none"]

\* a request arrives at a worker
RaceReceive(w, data) ==
    /\ requests[w].pc = "idle"
    /\ requests' = [requests EXCEPT ![w] = [pc |-> "received", data |-> data, result |-> "none"]]
    /\ UNCHANGED <<stayBookings, availability, foodVars, response, lastCreate, lastId, catalog, calls, listing>>

\* CreateModelMixin.create: serializer.is_valid(raise_exception=True)
RaceValidate(w) ==
    /\ requests[w].pc = "received"
    /\ IF StayRequiredPresent(requests[w].data) /\ StayValidate(requests[w].data)
       THEN /\ requests' = [requests EXCEPT ![w].pc = "valid"]
            /\ UNCHANGED response
       ELSE /\ requests' = [requests EXCEPT ![w].pc = "done", ![w].result = "bad_request"]
            /\ response' = Resp("create", "stay", 0, "bad_request")
    /\ UNCHANGED <<stayBookings, availability, foodVars, lastCreate, lastId, catalog, calls, listing>>

\* AccommodationBookingViewSet.perform_create: serializer.save(...) inserts the row
RaceSave(w, user, hdr) ==
    LET id == NextId(lastId.stay)
        b == StaySave(StayNewInstance(user, hdr, requests[w].data), id)
    IN /\ requests[w].pc = "valid"
       /\ IF StayRowAccepted(id, b)
          THEN /\ stayBookings' = stayBookings @@ (id :> b)
               /\ requests' = [requests EXCEPT ![w].pc = "done", ![w].result = "created"]
               /\ response' = Resp("create", "stay", id, "created")
          ELSE /\ UNCHANGED stayBookings
               /\ requests' = [requests EXCEPT ![w].pc = "done", ![w].result = "server_error"]
               /\ response' = Resp("create", "stay", 0, "server_error")
       /\ lastId' = IF response'.result = "created"
                    THEN [lastId EXCEPT !.stay = id] ELSE lastId
       /\ UNCHANGED <<availability, foodVars, lastCreate, catalog, calls, listing>>

----------------------------------------------------------------------------
(* Reading and deleting bookings *)

\* GET /bookings/{id}/: RetrieveModelMixin.retrieve with AccommodationBookingViewSet
StayRetrieve(user, hdr, id) ==
    /\ response' = IF id \notin DOMAIN stayBookings \/ ~StayVisible(user, hdr, stayBookings[id])
                   THEN Resp("retrieve", "stay", id, "not_found")
                   ELSE Resp("retrieve", "stay", id, "ok")
    /\ lastCreate' = NoCreate
    /\ UNCHANGED <<stayBookings, availability, foodVars, requests, lastId, catalog, calls, listing>>

\* DELETE /bookings/{id}/: DestroyModelMixin.destroy with AccommodationBookingViewSet
StayDestroy(user, hdr, id) ==
    /\ IF id \notin DOMAIN stayBookings \/ ~StayVisible(user, hdr, stayBookings[id])
       THEN /\ response' = Resp("destroy", "stay", id, "not_found")
            /\ UNCHANGED stayBookings
       ELSE /\ stayBookings' = [i \in DOMAIN stayBookings \ {id} |-> stayBookings[i]]
            /\ response' = Resp("destroy", "stay", id, "ok")
    /\ lastCreate' = NoCreate
    /\ UNCHANGED <<availability, foodVars, requests, lastId, catalog, calls, listing>>

\* GET /bookings/{id}/: RetrieveModelMixin.retrieve with FoodBookingViewSet
FoodRetrieve(user, hdr, id) ==
    /\ response' = IF id \notin DOMAIN foodBookings \/ ~FoodVisible(user, hdr, foodBookings[id])
                   THEN Resp("retrieve", "food", id, "not_found")
                   ELSE Resp("retrieve", "food", id, "ok")
    /\ lastCreate' = NoCreate
    /\ UNCHANGED <<stayBookings, availability, foodVars, requests, lastId, catalog, calls, listing>>

\* DELETE /bookings/{id}/: DestroyModelMixin.destroy with FoodBookingViewSet;
\* the order lines of the booking go with it (OrderItem.booking, on_delete=CASCADE)
FoodDestroy(user, hdr, id) ==
    /\ IF id \notin DOMAIN foodBookings \/ ~FoodVisible(user, hdr, foodBookings[id])
       THEN /\ response' = Resp("destroy", "food", id, "not_found")
            /\ UNCHANGED <<foodBookings, orderItems>>
       ELSE /\ foodBookings' = [i \in DOMAIN foodBookings \ {id} |-> foodBookings[i]]
            /\ orderItems' = {i \in orderItems : i.booking # id}
            /\ response' = Resp("destroy", "food", id, "ok")
    /\ lastCreate' = NoCreate
    /\ UNCHANGED <<stayBookings, availability, menuPrice, requests, lastId, catalog, calls, listing>>

----------------------------------------------------------------------------
(* The catalog: one row of each of Accommodation, Restaurant, RoomType, Table *)
(* and MenuItem, all of the tenant p1                                         *)

CatalogKinds == {"accommodation", "restaurant", "room_type", "table", "menu_item"}

\* the viewsets whose get_queryset filters only when the header is sent
ListedKinds == {"accommodation", "restaurant"}

\* is_active stands for Accommodation/Restaurant/RoomType.is_active and for
\* Table/MenuItem.is_available (default True); capacity is Table.capacity
TableCapacity == 4

CatalogRow ==
    [profile_id |-> "p1", present |-> TRUE, name |-> "n0", modified_by_id |-> "None",
     is_active |-> TRUE, capacity |-> TableCapacity]

\* the serializers that have the flag among their fields: RoomTypeSerializer,
\* TableSerializer, MenuItemCreateUpdateSerializer
FlagKinds == {"room_type", "table", "menu_item"}

\* the fields of a catalog update this model follows: name, and the flag (1, 0 or Absent)
CatalogData(name, flag) == [name |-> name, is_active |-> flag]

\* get_queryset of the catalog viewsets for the actions update, partial_update, destroy
CatalogVisible(kind, hdr, row) ==
    IF kind \in ListedKinds
    THEN IF hdr # "None" THEN row.profile_id = hdr ELSE TRUE
    ELSE row.profile_id = hdr

\* PUT/PATCH /{kind}/{id}/: UpdateModelMixin.update; perform_update of the
\* accommodation and restaurant viewsets stamps modified_by_id
CatalogUpdate(kind, user, hdr, data) ==
    /\ IF ~catalog[kind].present \/ ~CatalogVisible(kind, hdr, catalog[kind])
       THEN /\ response' = Resp("update", kind, 0, "not_found")
            /\ UNCHANGED catalog
       ELSE /\ catalog' = [catalog EXCEPT
                             ![kind].name = IF data.name = "Absent" THEN @ ELSE data.name,
                             ![kind].is_active = IF kind \in FlagKinds /\ data.is_active # Absent
                                                 THEN data.is_active = 1 ELSE @,
                             ![kind].modified_by_id = IF kind \in ListedKinds THEN user ELSE @]
            /\ response' = Resp("update", kind, 0, "ok")
    /\ lastCreate' = NoCreate
    /\ UNCHANGED <<stayBookings, availability, foodVars, requests, lastId, calls, listing>>

\* DELETE /{kind}/{id}/: DestroyModelMixin.destroy; the rows that refer to the
\* deleted row with on_delete=CASCADE go with it
CatalogDestroy(kind, user, hdr) ==
    LET gone == catalog[kind].present /\ CatalogVisible(kind, hdr, catalog[kind])
    IN /\ response' = Resp("destroy", kind, 0, IF gone THEN "ok" ELSE "not_found")
       /\ catalog' = IF ~gone THEN catalog
                     ELSE [k \in CatalogKinds |->
                             IF \/ k = kind
                                \/ kind = "accommodation" /\ k = "room_type"
                                \/ kind = "restaurant" /\ k \in {"table", "menu_item"}
                             THEN [catalog[k] EXCEPT !.present = FALSE]
                             ELSE catalog[k]]
       /\ stayBookings' =
             IF gone /\ kind = "accommodation" THEN <<>>
             ELSE IF gone /\ kind = "room_type"
             THEN [i \in {j \in DOMAIN stayBookings : stayBookings[j].room_type # "rt1"}
                     |-> stayBookings[i]]
             ELSE stayBookings
       /\ availability' =
             IF gone /\ kind = "accommodation" THEN <<>>
             ELSE IF gone /\ kind = "room_type"
             THEN [k \in {j \in DOMAIN availability : j[1] # "rt1"} |-> availability[k]]
             ELSE availability
       /\ foodBookings' =
             IF gone /\ kind = "restaurant" THEN <<>>
             ELSE IF gone /\ kind = "table"
             THEN [i \in DOMAIN foodBookings |-> [foodBookings[i] EXCEPT !.table = "None"]]
             ELSE foodBookings
       /\ orderItems' = IF gone /\ kind \in {"restaurant", "menu_item"} THEN {} ELSE orderItems
       /\ lastCreate' = NoCreate
       /\ UNCHANGED <<menuPrice, requests, lastId, calls, listing>>

----------------------------------------------------------------------------
(* Confirm and cancel as the two steps a request takes: get_object() loads   *)
(* the instance, then the handler checks the loaded status, assigns and      *)
(* save() writes every column of the loaded instance.  No handler opens a    *)
(* transaction or locks the row, so the steps of two requests interleave.    *)

Calls == {"confirm", "cancel"}

IdleCall == [pc |-> "idle", id |-> 0, obj |-> [status |-> "none"], result |-> "none"]

\* booking = self.get_object()
CallLoad(op, user, hdr, id) ==
    /\ calls[op].pc = "idle"
    /\ IF id \notin DOMAIN stayBookings \/ ~StayVisible(user, hdr, stayBookings[id])
       THEN /\ calls' = [calls EXCEPT ![op] = [pc |-> "done", id |-> id,
                                               obj |-> [status |-> "none"],
                                               result |-> "not_found"]]
            /\ response' = Resp(op, "stay", id, "not_found")
       ELSE /\ calls' = [calls EXCEPT ![op] = [pc |-> "loaded", id |-> id,
                                               obj |-> stayBookings[id],
                                               result |-> "none"]]
            /\ UNCHANGED response
    /\ UNCHANGED <<stayBookings, availability, foodVars, lastCreate, requests, lastId, catalog, listing>>

\* the status check, the two assignments and booking.save() (an UPDATE of all columns)
CallSave(op, t) ==
    LET c == calls[op]
        rejected == IF op = "confirm" THEN StayConfirmRejected(c.obj)
                    ELSE StayCancelRejected(c.obj)
        b == StaySave(IF op = "confirm" THEN StayConfirmed(c.obj, t)
                      ELSE StayCancelled(c.obj, t), 0)
    IN /\ c.pc = "loaded"
       /\ IF rejected
          THEN /\ calls' = [calls EXCEPT ![op].pc = "done", ![op].result = "bad_request"]
               /\ response' = Resp(op, "stay", c.id, "bad_request")
               /\ UNCHANGED stayBookings
          ELSE /\ calls' = [calls EXCEPT ![op].pc = "done", ![op].result = "ok"]
               /\ response' = Resp(op, "stay", c.id, "ok")
               /\ stayBookings' = [stayBookings EXCEPT ![c.id] = b]
       /\ UNCHANGED <<availability, foodVars, lastCreate, requests, lastId, catalog, listing>>

\* PATCH /menu-items/{id}/ with a price: UpdateModelMixin.update over
\* MenuItemViewSet.get_queryset with MenuItemCreateUpdateSerializer
MenuItemUpdate(user, hdr, m, price) ==
    /\ IF catalog["menu_item"].present /\ CatalogVisible("menu_item", hdr, catalog["menu_item"])
       THEN /\ menuPrice' = [menuPrice EXCEPT ![m] = price]
            /\ response' = Resp("update", "menu_item", 0, "ok")
       ELSE /\ UNCHANGED menuPrice
            /\ response' = Resp("update", "menu_item", 0, "not_found")
    /\ UNCHANGED <<stayBookings, availability, foodBookings, orderItems, lastCreate, requests,
                   lastId, catalog, calls, listing>>

----------------------------------------------------------------------------
(* Availability queries.  listing holds the rows of the last answer: kind of  *)
(* row, the resource it belongs to, its date (Absent for a resource), its     *)
(* available_rooms or capacity, and its is_available flag.                    *)

ListRow(kind, of, date, rooms, open) ==
    [kind |-> kind, of |-> of, date |-> date, available_rooms |-> rooms, is_available |-> open]

\* the statuses the table query treats as holding a table
BlockingStatuses == {"confirmed", "checked_in"}

\* .exclude(bookings__reservation_date=..., bookings__reservation_time=...,
\* bookings__status__in=[...]) over the multi-valued relation Table.bookings: every
\* condition is a subquery of its own, so the bookings that meet the three
\* conditions need not be one booking
TableExcluded(rows, d, t) ==
    LET OfTable == {i \in DOMAIN rows : rows[i].table = "t1"}
    IN /\ \E i \in OfTable : rows[i].reservation_date = d
       /\ \E i \in OfTable : rows[i].reservation_time = t
       /\ \E i \in OfTable : rows[i].status \in BlockingStatuses

\* GET /restaurants/{id}/availability/?date=&time=&party_size=:
\* RestaurantViewSet.availability
RestaurantAvailability(d, t, party_size) ==
    /\ IF ~catalog["restaurant"].present
       THEN /\ response' = Resp("availability", "food", 0, "not_found")
            /\ listing' = {}
       ELSE IF d = Absent \/ t = Absent
       THEN /\ response' = Resp("availability", "food", 0, "bad_request")
            /\ listing' = {}
       ELSE /\ response' = Resp("availability", "food", 0, "ok")
            /\ listing' = IF /\ catalog["table"].present
                             /\ catalog["table"].capacity >= party_size
                             /\ catalog["table"].is_active
                             /\ ~TableExcluded(foodBookings, d, t)
                          THEN {ListRow("table", "t1", Absent, catalog["table"].capacity, TRUE)}
                          ELSE {}
    /\ UNCHANGED <<stayBookings, availability, foodVars, lastCreate, requests, lastId,
                   catalog, calls>>

\* GET /accommodations/{id}/availability/?start_date=&end_date=:
\* AccommodationViewSet.availability
AccommodationAvailability(start_date, end_date) ==
    /\ IF ~catalog["accommodation"].present
       THEN /\ response' = Resp("availability", "stay", 0, "not_found")
            /\ listing' = {}
       ELSE IF start_date = Absent \/ end_date = Absent
       THEN /\ response' = Resp("availability", "stay", 0, "bad_request")
            /\ listing' = {}
       ELSE /\ response' = Resp("availability", "stay", 0, "ok")
            /\ listing' = {ListRow("calendar", k[1], k[2], availability[k].available_rooms,
                                   availability[k].is_available) :
                              k \in {j \in DOMAIN availability :
                                        start_date <= j[2] /\ j[2] <= end_date}}
    /\ UNCHANGED <<stayBookings, availability, foodVars, lastCreate, requests, lastId,
                   catalog, calls>>

\* AccommodationManager.available_for_dates: one filter() call, so one calendar row
\* has to meet both availability conditions
AvailableForDates(check_in, check_out) ==
    /\ response' = Resp("available_for_dates", "stay", 0, "ok")
    /\ listing' = IF /\ catalog["accommodation"].present
                     /\ catalog["accommodation"].is_active
                     /\ \E k \in DOMAIN availability :
                           /\ check_in <= k[2] /\ k[2] <= check_out
                           /\ availability[k].is_available
                  THEN {ListRow("accommodation", "a1", Absent, AccTotalRooms, TRUE)}
                  ELSE {}
    /\ UNCHANGED <<stayBookings, availability, foodVars, lastCreate, requests, lastId,
                   catalog, calls>>

----------------------------------------------------------------------------
Init ==
    /\ stayBookings = <<>>
    /\ availability = <<>>
    /\ foodBookings = <<>>
    /\ orderItems = {}
    /\ menuPrice = [m \in MenuItems |-> IF m = "m1" THEN 450 ELSE 1200]
    /\ response = NoResponse
    /\ lastCreate = NoCreate
    /\ requests = [w \in Workers |-> IdleRequest]
    /\ lastId = [stay |-> 0, food |-> 0]
    /\ catalog = [k \in CatalogKinds |-> CatalogRow]
    /\ calls = [op \in Calls |-> IdleCall]
    /\ listing = {}

----------------------------------------------------------------------------
(* Capacity specification: one guest books the accommodation a1 for windows *)
(* that share the date Today, confirms and cancels; the tenant edits the    *)
(* calendar rows of that date.                                              *)

CapacityWindows == {<<Today, Today + 1>>, <<Today, Today + 2>>, <<Today + 1, Today + 1>>}

CapacityStayData ==
    {StayData("Absent", w[1], w[2], 1, 10000, Absent, Absent, "Absent") : w \in CapacityWindows}

CalendarData(rt) ==
    {[available_rooms |-> n, is_available |-> TRUE] :
        n \in {0 - 1, 0, ResourceTotalRooms(rt), ResourceTotalRooms(rt) + 1}}

NextCapacity ==
    \/ \E data \in CapacityStayData :
          /\ Cardinality(DOMAIN stayBookings) < MaxStay
          /\ StayCreate("u1", "None", data, NextId(lastId.stay))
    \/ \E id \in 1..MaxStay : StayConfirm("u1", "None", id, 1)
    \/ \E id \in 1..MaxStay : StayCancel("u1", "None", id, 1)
    \/ \E data \in CalendarData("None") : CalendarEdit("None", Today, data)

SpecCapacity == Init /\ [][NextCapacity]_vars

----------------------------------------------------------------------------
(* Pricing specification: one guest creates stay bookings of differing      *)
(* windows, rooms, rates, taxes and fees, replaces or patches them,         *)
(* confirms and cancels.                                                    *)

PricingStayData ==
    {StayData("Absent", w[1], w[2], rooms, m[1], m[2], m[3], "Absent") :
        w \in {<<Today, Today + 3>>, <<Today + 1, Today + 2>>},
        rooms \in {Absent, 2},
        m \in {<<10000, Absent, Absent>>, <<12550, 1250, 500>>}}

PricingStayPatches ==
    {[NoStayData EXCEPT !.check_out_date = Today + 2],
     [NoStayData EXCEPT !.check_in_date = Today + 3],
     [NoStayData EXCEPT !.number_of_rooms = 2],
     [NoStayData EXCEPT !.taxes = 1250]}

NextPricing ==
    \/ \E data \in PricingStayData :
          /\ Cardinality(DOMAIN stayBookings) < MaxPriced
          /\ StayCreate("u1", "None", data, NextId(lastId.stay))
    \/ \E id \in 1..MaxPriced : \E data \in PricingStayData :
          StayUpdate("u1", "None", id, data, FALSE)
    \/ \E id \in 1..MaxPriced : \E data \in PricingStayPatches :
          StayUpdate("u1", "None", id, data, TRUE)
    \/ \E id \in 1..MaxPriced : StayConfirm("u1", "None", id, 1)
    \/ \E id \in 1..MaxPriced : StayCancel("u1", "None", id, 1)

SpecPricing == Init /\ [][NextPricing]_vars

----------------------------------------------------------------------------
(* Lifecycle specification (the default): the guest u1 creates bookings of  *)
(* both domains, carrying a status or not, and patches their status; u1 and *)
(* a stranger u2 confirm, cancel and update_status.                         *)

StayStatusInputs == {"Absent", "confirmed", "checked_out", "cancelled"}

FoodStatusInputs == {"Absent", "confirmed", "delivered", "completed", "cancelled"}

Bookings == Cardinality(DOMAIN stayBookings) + Cardinality(DOMAIN foodBookings)

Next ==
    \/ \E st \in StayStatusInputs :
          /\ Bookings < MaxBookings
          /\ StayCreate("u1", "None",
                        StayData("Absent", Today, Today + 1, Absent, 10000, Absent, Absent, st),
                        NextId(lastId.stay))
    \/ \E id \in 1..MaxBookings : \E st \in StayStatusInputs \ {"Absent"} :
          StayUpdate("u1", "None", id, [NoStayData EXCEPT !.status = st], TRUE)
    \/ \E user \in Users : \E id \in 1..MaxBookings : \E t \in Times :
          StayConfirm(user, "None", id, t)
    \/ \E user \in Users : \E id \in 1..MaxBookings : \E t \in Times :
          StayCancel(user, "None", id, t)
    \/ \E st \in FoodStatusInputs :
          /\ Bookings < MaxBookings
          /\ FoodCreate("u1", "None", [NoFoodData EXCEPT !.booking_type = "takeout", !.status = st],
                        NextId(lastId.food))
    \/ \E id \in 1..MaxBookings : \E st \in FoodStatusInputs \ {"Absent"} :
          FoodUpdate("u1", "None", id, [NoFoodData EXCEPT !.status = st])
    \/ \E user \in Users : \E id \in 1..MaxBookings : \E t \in Times :
          FoodConfirm(user, "None", id, t)
    \/ \E user \in Users : \E id \in 1..MaxBookings : \E t \in Times :
          FoodCancel(user, "None", id, t)
    \/ \E id \in 1..MaxBookings : \E st \in {"Absent", "completed"} :
          FoodUpdateStatus("u1", "None", id, st, 1)

Spec == Init /\ [][Next]_vars

----------------------------------------------------------------------------
(* Dining specification: the customer u1 creates dining bookings of every    *)
(* kind, with and without the fields the kind requires, with and without     *)
(* order lines and charges, patches them, confirms, cancels, updates status. *)

Charges ==
    [subtotal |-> 999, delivery_fee |-> 300, service_charge |-> Absent,
     taxes |-> 150, discount_amount |-> 200, tip_amount |-> Absent]

OrderLine(m, qty, price) == [menu_item |-> m, quantity |-> qty, unit_price |-> price]

DiningKindData ==
    {[NoFoodData EXCEPT !.booking_type = "reservation", !.reservation_date = Today,
                        !.reservation_time = 1],
     [NoFoodData EXCEPT !.booking_type = "reservation", !.reservation_time = 1],
     [NoFoodData EXCEPT !.booking_type = "delivery", !.delivery_address = "12 Main St"],
     [NoFoodData EXCEPT !.booking_type = "delivery"],
     [NoFoodData EXCEPT !.booking_type = "delivery", !.delivery_address = ""],
     [NoFoodData EXCEPT !.booking_type = "catering", !.event_date = Today,
                        !.event_location = "Hall"],
     [NoFoodData EXCEPT !.booking_type = "catering", !.event_date = Today],
     [NoFoodData EXCEPT !.booking_type = "delivery",
                        !.order_items = <<OrderLine("m1", 2, 1)>>],
     NoFoodData}

DiningOrderData ==
    {FoodData("takeout", Absent, Absent, "Absent", Absent, "Absent", money, "Absent", items) :
        money \in {NoMoney, Charges},
        items \in {<<>>, <<OrderLine("m1", 2, 1)>>,
                   <<OrderLine("m1", 2, 1), OrderLine("m2", Absent, 1)>>}}

DiningPatches ==
    {[NoFoodData EXCEPT !.tip_amount = 100],
     [NoFoodData EXCEPT !.order_items = <<OrderLine("m2", 1, 1)>>]}

NextDining ==
    \/ \E data \in DiningKindData \cup DiningOrderData :
          /\ Cardinality(DOMAIN foodBookings) < MaxFood
          /\ FoodCreate("u1", "None", data, NextId(lastId.food))
    \/ \E id \in 1..MaxFood : \E data \in DiningPatches : FoodUpdate("u1", "None", id, data)
    \/ \E id \in 1..MaxFood : FoodConfirm("u1", "None", id, 1)
    \/ \E id \in 1..MaxFood : FoodCancel("u1", "None", id, 1)
    \/ \E id \in 1..MaxFood : \E st \in {"Absent", "preparing"} :
          FoodUpdateStatus("u1", "None", id, st, 1)

SpecDining == Init /\ [][NextDining]_vars

----------------------------------------------------------------------------
(* Race specification: AccTotalRooms + 1 workers each handle one creation of *)
(* one room of the accommodation a1; their steps interleave freely.          *)

RaceStayData ==
    {StayData("Absent", Today, co, 1, 10000, Absent, Absent, "Absent") :
        co \in {Today + 1, Today + 2}}

NextRace ==
    \/ \E w \in Workers : \E data \in RaceStayData : RaceReceive(w, data)
    \/ \E w \in Workers : RaceValidate(w)
    \/ \E w \in Workers : RaceSave(w, "u1", "None")

SpecRace == Init /\ [][NextRace]_vars

----------------------------------------------------------------------------
(* Scope specification: the customer u1 creates bookings of both domains,    *)
(* with the header X-Profile-ID of the tenant p1 or without it; then every   *)
(* user, with every header, reads, confirms, cancels, patches and deletes.   *)

ScopeHeaders == {"None", "p1", "p2"}

\* the requester, a stranger, a member of the owning tenant, a member of another tenant
ScopeActors == {<<"u1", "None">>, <<"u2", "None">>, <<"u2", "p1">>, <<"u2", "p2">>}

ScopeStayPatches == {[NoStayData EXCEPT !.taxes = 1250]}

ScopeFoodPatches == {[NoFoodData EXCEPT !.tip_amount = 100]}

NextScope ==
    \/ \E hdr \in {"None", "p1"} :
          /\ lastId.stay + lastId.food < MaxScope
          /\ StayCreate("u1", hdr,
                        StayData("Absent", Today, Today + 1, Absent, 10000, Absent, Absent,
                                 "Absent"),
                        NextId(lastId.stay))
    \/ \E hdr \in {"None", "p1"} :
          /\ lastId.stay + lastId.food < MaxScope
          /\ FoodCreate("u1", hdr, [NoFoodData EXCEPT !.booking_type = "takeout"],
                        NextId(lastId.food))
    \/ \E a \in ScopeActors : \E id \in 1..MaxScope :
          StayRetrieve(a[1], a[2], id)
    \/ \E a \in ScopeActors : \E id \in 1..MaxScope :
          StayConfirm(a[1], a[2], id, 1)
    \/ \E a \in ScopeActors : \E id \in 1..MaxScope :
          StayCancel(a[1], a[2], id, 1)
    \/ \E a \in ScopeActors : \E id \in 1..MaxScope :
          \E data \in ScopeStayPatches : StayUpdate(a[1], a[2], id, data, TRUE)
    \/ \E a \in ScopeActors : \E id \in 1..MaxScope :
          StayDestroy(a[1], a[2], id)
    \/ \E a \in ScopeActors : \E id \in 1..MaxScope :
          FoodRetrieve(a[1], a[2], id)
    \/ \E a \in ScopeActors : \E id \in 1..MaxScope :
          FoodConfirm(a[1], a[2], id, 1)
    \/ \E a \in ScopeActors : \E id \in 1..MaxScope :
          FoodCancel(a[1], a[2], id, 1)
    \/ \E a \in ScopeActors : \E id \in 1..MaxScope :
          \E data \in ScopeFoodPatches : FoodUpdate(a[1], a[2], id, data)
    \/ \E a \in ScopeActors : \E id \in 1..MaxScope :
          FoodDestroy(a[1], a[2], id)

SpecScope == Init /\ [][NextScope]_vars

----------------------------------------------------------------------------
(* Catalog specification: a member of the owning tenant p1, a member of the  *)
(* tenant p2 and a user who sends no X-Profile-ID rename and delete the      *)
(* catalog rows.                                                             *)

CatalogActors == {<<"u1", "p1">>, <<"u2", "p2">>, <<"u2", "None">>}

NextCatalog ==
    \/ \E kind \in CatalogKinds : \E a \in CatalogActors : CatalogUpdate(kind, a[1], a[2], CatalogData("n1", Absent))
    \/ \E kind \in CatalogKinds : \E a \in CatalogActors : CatalogDestroy(kind, a[1], a[2])

SpecCatalog == Init /\ [][NextCatalog]_vars

----------------------------------------------------------------------------
(* Reference specification: the customer u1 creates bookings of both domains *)
(* for the tenant p1; random.choices may draw a suffix it has drawn before.  *)
(* The bookings are then patched, confirmed, cancelled and moved on.         *)

Suffixes == {1, 2}

NextReference ==
    \/ \E sfx \in Suffixes :
          /\ lastId.stay + lastId.food < MaxRef
          /\ StayCreate("u1", "p1",
                        StayData("Absent", Today, Today + 1, Absent, 10000, Absent, Absent,
                                 "Absent"), sfx)
    \/ \E sfx \in Suffixes :
          /\ lastId.stay + lastId.food < MaxRef
          /\ FoodCreate("u1", "p1", [NoFoodData EXCEPT !.booking_type = "takeout"], sfx)
    \/ \E id \in 1..MaxRef :
          StayUpdate("u1", "p1", id, [NoStayData EXCEPT !.taxes = 1250], TRUE)
    \/ \E id \in 1..MaxRef : StayConfirm("u1", "p1", id, 1)
    \/ \E id \in 1..MaxRef : StayCancel("u1", "p1", id, 1)
    \/ \E id \in 1..MaxRef :
          FoodUpdate("u1", "p1", id, [NoFoodData EXCEPT !.tip_amount = 100])
    \/ \E id \in 1..MaxRef : FoodConfirm("u1", "p1", id, 1)
    \/ \E id \in 1..MaxRef : FoodCancel("u1", "p1", id, 1)
    \/ \E id \in 1..MaxRef : FoodUpdateStatus("u1", "p1", id, "preparing", 1)

SpecReference == Init /\ [][NextReference]_vars

----------------------------------------------------------------------------
(* Atomicity specification: the guest u1 creates a stay booking; one confirm *)
(* request and one cancel request, of u1 or of the stranger u2, are handled  *)
(* concurrently: their loads and saves interleave freely.                    *)

NextAtomic ==
    \/ \E co \in {Today + 1, Today + 2, Today + 3} :
          /\ lastId.stay < MaxAtomic
          /\ StayCreate("u1", "None",
                        StayData("Absent", Today, co, Absent, 10000, Absent, Absent, "Absent"),
                        NextId(lastId.stay))
    \/ \E op \in Calls : \E user \in Users : \E id \in 1..MaxAtomic :
          CallLoad(op, user, "None", id)
    \/ \E op \in Calls : \E t \in Times : CallSave(op, t)

SpecAtomic == Init /\ [][NextAtomic]_vars

----------------------------------------------------------------------------
(* Orders specification: the customer u1 orders from the menu, with lines    *)
(* that can and that cannot be stored; a member of the owning tenant p1      *)
(* changes menu prices; u1 patches and confirms the bookings.                 *)

\* a quantity whose line total at the price of m2 has more than ten digits
HugeQuantity == 100 * DecimalScale

OrdersData ==
    {FoodData("takeout", Absent, Absent, "Absent", Absent, "Absent", money, "Absent", items) :
        money \in {NoMoney, Charges},
        items \in {<<>>,
                   <<OrderLine("m1", 2, 1), OrderLine("m2", Absent, 1)>>,
                   <<OrderLine("m1", 2, 1), OrderLine("m2", HugeQuantity, 1)>>,
                   <<OrderLine("m2", HugeQuantity, 1), OrderLine("m1", 1, 1)>>}}

OrdersPatches == {[NoFoodData EXCEPT !.subtotal = 999]}

OrdersPrices == {<<"m1", 500>>, <<"m2", 1500>>}

NextOrders ==
    \/ \E data \in OrdersData :
          /\ Cardinality(DOMAIN foodBookings) < MaxOrders
          /\ FoodCreate("u1", "None", data, NextId(lastId.food))
    \/ \E mp \in OrdersPrices : \E hdr \in {"p1", "p2"} :
          MenuItemUpdate("u2", hdr, mp[1], mp[2])
    \/ \E id \in 1..MaxOrders : \E data \in OrdersPatches :
          FoodUpdate("u1", "None", id, data)
    \/ \E id \in 1..MaxOrders : FoodConfirm("u1", "None", id, 1)

SpecOrders == Init /\ [][NextOrders]_vars

----------------------------------------------------------------------------
(* Resources specification: a member of the owning tenant p1 switches the    *)
(* room type rt1 and the table t1 off and on and edits the calendar of Today; *)
(* the customer u1 books rt1 and reserves t1, and confirms; anyone asks for   *)
(* tables and for calendar rows.                                              *)

ResourceStayData ==
    {StayData(rt, Today, Today + 1, Absent, 10000, Absent, Absent, "Absent") :
        rt \in {"Absent", "rt1"}}

ResourceFoodData ==
    {[NoFoodData EXCEPT !.booking_type = "reservation", !.table = "t1",
                        !.reservation_date = w[1], !.reservation_time = w[2]] :
        w \in {<<Today, 1>>, <<Today + 1, 2>>}}

NextResources ==
    \/ \E data \in ResourceStayData :
          /\ lastId.stay + lastId.food < MaxResources
          /\ StayCreate("u1", "None", data, NextId(lastId.stay))
    \/ \E data \in ResourceFoodData :
          /\ lastId.stay + lastId.food < MaxResources
          /\ FoodCreate("u1", "None", data, NextId(lastId.food))
    \/ \E id \in 1..MaxResources : FoodConfirm("u1", "None", id, 1)
    \/ \E kind \in {"room_type", "table"} : \E flag \in {0, 1} :
          CatalogUpdate(kind, "u2", "p1", CatalogData("Absent", flag))
    \/ \E open \in BOOLEAN :
          CalendarEdit("None", Today, [available_rooms |-> 1, is_available |-> open])
    \/ \E d \in {Absent, Today, Today + 1} : \E t \in Times :
       \E party_size \in {2, TableCapacity + 1} :
          RestaurantAvailability(d, t, party_size)
    \/ \E start_date \in {Absent, Today} : AccommodationAvailability(start_date, Today + 1)
    \/ AvailableForDates(Today, Today + 1)

SpecResources == Init /\ [][NextResources]_vars

----------------------------------------------------------------------------


(* Claims *)

\* C2: for every resource and date the rooms of the bookings that are not
\* cancelled/no_show and cover the date never exceed the resource's total_rooms
C2_CapacityNeverExceeded ==
    \A rt \in RoomTypes : \A d \in Days :
        BookedRooms(stayBookings, rt, d) <= ResourceTotalRooms(rt)

\* C3: every availability row has 0 <= available_rooms <= total_rooms of its resource
C3_SlotWithinCapacity ==
    \A k \in DOMAIN availability :
        /\ 0 <= availability[k].available_rooms
        /\ availability[k].available_rooms <= ResourceTotalRooms(k[1])

\* C6: a successful cancel of a pending/confirmed booking sets status 'cancelled',
\* stamps cancellation_date and gives the booking's rooms back to the calendar row
\* of every date of its window
C6_CancelRestoresCapacity ==
    [][\A id \in DOMAIN stayBookings :
          (/\ response'.op = "cancel" /\ response'.domain = "stay"
           /\ response'.id = id /\ response'.result = "ok"
           /\ stayBookings[id].status \in {"pending", "confirmed"})
          => /\ stayBookings'[id].status = "cancelled"
             /\ stayBookings'[id].cancellation_date # Absent
             /\ \A k \in DOMAIN availability :
                   (/\ k[1] = stayBookings[id].room_type
                    /\ stayBookings[id].check_in_date <= k[2]
                    /\ k[2] < stayBookings[id].check_out_date)
                   => availability'[k].available_rooms =
                         availability[k].available_rooms + stayBookings[id].number_of_rooms
      ]_vars

\* C7: a creation followed immediately by the cancellation of the booking it made
\* leaves the calendar rows and the rooms held on every date as before the creation
C7_ReserveThenReleaseRestores ==
    lastCreate.released # 0 =>
        /\ availability = lastCreate.avail
        /\ Booked(stayBookings) = lastCreate.booked

C7_Witness ==
    /\ lastCreate.released # 0
    /\ stayBookings[lastCreate.released].status = "cancelled"
    /\ DOMAIN availability # {}
    /\ \E rt \in RoomTypes : \E d \in Days : lastCreate.booked[rt, d] > 0

ErrorResults == {"bad_request", "not_found", "server_error"}

\* C4: confirm on a booking (lodging or dining) whose status is not 'pending' yields
\* an error and leaves status and confirmation_date as they were; a confirm that
\* succeeds on a 'pending' booking sets status 'confirmed'
C4_ConfirmOnlyFromPending ==
    [][/\ \A id \in DOMAIN stayBookings :
             (response'.op = "confirm" /\ response'.domain = "stay" /\ response'.id = id)
             => IF stayBookings[id].status # "pending"
                THEN /\ response'.result \in ErrorResults
                     /\ stayBookings'[id].status = stayBookings[id].status
                     /\ stayBookings'[id].confirmation_date = stayBookings[id].confirmation_date
                ELSE IF response'.result = "ok"
                THEN /\ stayBookings'[id].status = "confirmed"
                     /\ stayBookings'[id].confirmation_date # Absent
                ELSE stayBookings'[id] = stayBookings[id]
       /\ \A id \in DOMAIN foodBookings :
             (response'.op = "confirm" /\ response'.domain = "food" /\ response'.id = id)
             => IF foodBookings[id].status # "pending"
                THEN /\ response'.result \in ErrorResults
                     /\ foodBookings'[id].status = foodBookings[id].status
                     /\ foodBookings'[id].confirmation_date = foodBookings[id].confirmation_date
                ELSE IF response'.result = "ok"
                THEN /\ foodBookings'[id].status = "confirmed"
                     /\ foodBookings'[id].confirmation_date # Absent
                ELSE foodBookings'[id] = foodBookings[id]
      ]_vars

C4_Witness ==
    /\ response.op = "confirm" /\ response.domain = "food" /\ response.result = "bad_request"
    /\ response.id \in DOMAIN foodBookings
    /\ foodBookings[response.id].status = "delivered"
    /\ foodBookings[response.id].confirmation_date = Absent

\* C5: cancel on a booking whose status is 'completed', 'delivered' or 'cancelled'
\* yields an error and leaves status and cancellation_date as they were
C5_CancelRejectedWhenFinished ==
    [][/\ \A id \in DOMAIN stayBookings :
             (/\ response'.op = "cancel" /\ response'.domain = "stay" /\ response'.id = id
              /\ stayBookings[id].status \in {"completed", "delivered", "cancelled"})
             => /\ response'.result \in ErrorResults
                /\ stayBookings'[id].status = stayBookings[id].status
                /\ stayBookings'[id].cancellation_date = stayBookings[id].cancellation_date
       /\ \A id \in DOMAIN foodBookings :
             (/\ response'.op = "cancel" /\ response'.domain = "food" /\ response'.id = id
              /\ foodBookings[id].status \in {"completed", "delivered", "cancelled"})
             => /\ response'.result \in ErrorResults
                /\ foodBookings'[id].status = foodBookings[id].status
                /\ foodBookings'[id].cancellation_date = foodBookings[id].cancellation_date
      ]_vars

C5_Witness ==
    /\ response.op = "cancel" /\ response.domain = "food" /\ response.result = "bad_request"
    /\ response.id \in DOMAIN foodBookings
    /\ foodBookings[response.id].status = "delivered"
    /\ foodBookings[response.id].cancellation_date = Absent

\* C8: every persisted stay booking has total_nights = check_out_date - check_in_date,
\* subtotal = room_rate * total_nights * number_of_rooms and
\* total_amount = subtotal + taxes + fees, in cents (the lodging booking carries no
\* tip and no discount)
C8_StayTotalsExact ==
    \A id \in DOMAIN stayBookings :
        LET b == stayBookings[id]
        IN /\ b.total_nights = b.check_out_date - b.check_in_date
           /\ b.subtotal = b.room_rate * b.total_nights * b.number_of_rooms
           /\ b.total_amount = b.subtotal + b.taxes + b.fees

\* three nights at 100.00 for one room: nights 3, subtotal 300.00, re-saved by confirm
C8_Witness ==
    \E id \in DOMAIN stayBookings :
        LET b == stayBookings[id]
        IN /\ b.check_in_date = Today /\ b.check_out_date = Today + 3
           /\ b.room_rate = 10000 /\ b.number_of_rooms = 1
           /\ b.total_nights = 3 /\ b.subtotal = 30000
           /\ b.taxes = 1250 /\ b.total_amount = 31250
           /\ b.status = "confirmed"

\* C9: every persisted dining booking has
\* total_amount = subtotal + taxes + (delivery_fee + service_charge) + tip_amount - discount_amount
C9_FoodTotalInvariant ==
    \A id \in DOMAIN foodBookings :
        LET b == foodBookings[id]
        IN b.total_amount =
              b.subtotal + b.taxes + (b.delivery_fee + b.service_charge)
                 + b.tip_amount - b.discount_amount

\* a booking created with two order lines and charges, then tipped and confirmed
C9_Witness ==
    \E id \in DOMAIN foodBookings :
        LET b == foodBookings[id]
        IN /\ Cardinality({i \in orderItems : i.booking = id}) = 2
           /\ b.subtotal = 2100 /\ b.delivery_fee = 300 /\ b.taxes = 150
           /\ b.discount_amount = 200 /\ b.tip_amount = 100
           /\ b.total_amount = 2450
           /\ b.status = "confirmed"

\* the fields a booking kind requires are set
FoodKindFieldsPresent(b) ==
    /\ b.booking_type = "reservation" => (b.reservation_date # Absent /\ b.reservation_time # Absent)
    /\ b.booking_type = "delivery" => b.delivery_address # ""
    /\ b.booking_type = "catering" => (b.event_date # Absent /\ b.event_location # "")

\* C10: a dining creation lacking a field its booking kind requires is rejected and
\* persists nothing: every creation that persists a booking persists one that has
\* the fields of its kind, and a rejected creation leaves bookings and order lines alone
C10_CreateRequiresKindFields ==
    [][(response'.op = "create" /\ response'.domain = "food")
       => IF response'.result = "created"
          THEN FoodKindFieldsPresent(foodBookings'[response'.id])
          ELSE UNCHANGED <<foodBookings, orderItems, availability>>
      ]_vars

\* C1: when every worker has finished a creation of one room for the same window
\* of a resource with N rooms, exactly N of the N + 1 creations have succeeded
C1_ExactlyCapacitySucceed ==
    (\A w \in Workers :
        /\ requests[w].pc = "done"
        /\ requests[w].data = requests[1].data)
    => Cardinality({w \in Workers : requests[w].result = "created"}) = AccTotalRooms

\* the rule of C11: the actor is the requester, or the actor's tenant owns the booking
ActorMayAccess(user, hdr, requester, tenant) ==
    requester = user \/ (hdr # "None" /\ tenant = hdr)

\* C11: a read, confirm, cancel, update or delete of a booking by an actor who is
\* neither its requester nor of its owning tenant reports not found and leaves the
\* bookings (and the order lines) as they were
C11_ScopeGuard ==
    [][\A user \in Users : \A hdr \in ScopeHeaders :
          /\ \A id \in DOMAIN stayBookings :
                (/\ response'.domain = "stay" /\ response'.id = id
                 /\ ~ActorMayAccess(user, hdr, stayBookings[id].guest_user_id,
                                    stayBookings[id].profile_id)
                 /\ \/ StayRetrieve(user, hdr, id)
                    \/ StayConfirm(user, hdr, id, 1)
                    \/ StayCancel(user, hdr, id, 1)
                    \/ \E data \in ScopeStayPatches : StayUpdate(user, hdr, id, data, TRUE)
                    \/ StayDestroy(user, hdr, id))
                => /\ response'.result = "not_found"
                   /\ UNCHANGED stayBookings
          /\ \A id \in DOMAIN foodBookings :
                (/\ response'.domain = "food" /\ response'.id = id
                 /\ ~ActorMayAccess(user, hdr, foodBookings[id].customer_user_id,
                                    foodBookings[id].profile_id)
                 /\ \/ FoodRetrieve(user, hdr, id)
                    \/ FoodConfirm(user, hdr, id, 1)
                    \/ FoodCancel(user, hdr, id, 1)
                    \/ \E data \in ScopeFoodPatches : FoodUpdate(user, hdr, id, data)
                    \/ FoodDestroy(user, hdr, id))
                => /\ response'.result = "not_found"
                   /\ UNCHANGED <<foodBookings, orderItems>>
      ]_vars

\* a delete by somebody else was answered not found and the pending booking of the
\* tenant p1 is still there
C11_Witness ==
    /\ response.op = "destroy" /\ response.domain = "stay" /\ response.result = "not_found"
    /\ response.id \in DOMAIN stayBookings
    /\ stayBookings[response.id].profile_id = "p1"
    /\ stayBookings[response.id].status = "pending"

\* C12: an update or delete of a catalog row by an actor whose tenant id is not the
\* row's profile_id, or who has no tenant id, does not succeed and leaves the row alone
C12_CatalogWritesNeedOwningTenant ==
    [][\A kind \in CatalogKinds : \A a \in CatalogActors :
          (/\ a[2] # catalog[kind].profile_id
           /\ response'.domain = kind
           /\ CatalogUpdate(kind, a[1], a[2], CatalogData("n1", Absent)) \/ CatalogDestroy(kind, a[1], a[2]))
          => /\ response'.result # "ok"
             /\ catalog'[kind] = catalog[kind]
      ]_vars

\* C13: every persisted booking has a reference, and no step changes the reference
\* of a booking that stays persisted
C13_ReferenceImmutable ==
    [][/\ \A id \in DOMAIN stayBookings' : stayBookings'[id].booking_reference # NoRef
       /\ \A id \in DOMAIN foodBookings' : foodBookings'[id].booking_reference # NoRef
       /\ \A id \in DOMAIN stayBookings \cap DOMAIN stayBookings' :
             stayBookings'[id].booking_reference = stayBookings[id].booking_reference
       /\ \A id \in DOMAIN foodBookings \cap DOMAIN foodBookings' :
             foodBookings'[id].booking_reference = foodBookings[id].booking_reference
      ]_vars

\* a stay booking that was patched, confirmed and cancelled, and a dining booking
\* that was tipped and cancelled, still carry the references of their creation
C13_Witness ==
    /\ \E id \in DOMAIN stayBookings :
          /\ stayBookings[id].status = "cancelled"
          /\ stayBookings[id].confirmation_date # Absent
          /\ stayBookings[id].taxes = 1250
          /\ stayBookings[id].booking_reference =
                [prefix |-> "ACC", sep |-> "", tenant |-> "p1", suffix |-> 2]
    /\ \E id \in DOMAIN foodBookings :
          /\ foodBookings[id].status = "cancelled"
          /\ foodBookings[id].tip_amount = 100
          /\ foodBookings[id].booking_reference.suffix = 1

\* C14: every reference is the domain prefix, the owning tenant id and the suffix
\* with nothing between them
C14_ReferenceFormat ==
    /\ \A id \in DOMAIN stayBookings :
          /\ stayBookings[id].booking_reference.prefix = "ACC"
          /\ stayBookings[id].booking_reference.tenant = stayBookings[id].profile_id
          /\ stayBookings[id].booking_reference.sep = ""
    /\ \A id \in DOMAIN foodBookings :
          /\ foodBookings[id].booking_reference.prefix = "FD"
          /\ foodBookings[id].booking_reference.tenant = foodBookings[id].profile_id
          /\ foodBookings[id].booking_reference.sep = ""

\* C15: no two persisted bookings share a reference, and a creation whose payload is
\* valid succeeds whatever suffix is drawn
C15_CollisionRetried ==
    [][/\ \A i, j \in DOMAIN stayBookings' :
             i # j => stayBookings'[i].booking_reference # stayBookings'[j].booking_reference
       /\ \A i, j \in DOMAIN foodBookings' :
             i # j => foodBookings'[i].booking_reference # foodBookings'[j].booking_reference
       /\ (response'.op = "create" /\ response'.result # "bad_request")
             => response'.result = "created"
      ]_vars

\* C16: a booking whose status is 'cancelled' or 'no_show' keeps that status in
\* every step
C16_TerminalStatusesStay ==
    [][/\ \A id \in DOMAIN stayBookings \cap DOMAIN stayBookings' :
             stayBookings[id].status \in {"cancelled", "no_show"}
             => stayBookings'[id].status = stayBookings[id].status
       /\ \A id \in DOMAIN foodBookings \cap DOMAIN foodBookings' :
             foodBookings[id].status \in {"cancelled", "no_show"}
             => foodBookings'[id].status = foodBookings[id].status
      ]_vars

\* the edges of the lifecycle
StayEdges ==
    {<<"pending", "confirmed">>, <<"confirmed", "checked_in">>, <<"checked_in", "checked_out">>}
       \cup ({"pending", "confirmed", "checked_in"} \X {"cancelled", "no_show"})

FoodEdges ==
    {<<"pending", "confirmed">>, <<"confirmed", "preparing">>, <<"preparing", "ready">>,
     <<"ready", "out_for_delivery">>, <<"out_for_delivery", "delivered">>,
     <<"confirmed", "completed">>}
       \cup ({"pending", "confirmed", "preparing", "ready", "out_for_delivery"}
                \X {"cancelled", "no_show"})

\* C17: every change of a booking's status is an edge of the lifecycle
C17_StatusFollowsLifecycle ==
    [][/\ \A id \in DOMAIN stayBookings \cap DOMAIN stayBookings' :
             \/ stayBookings'[id].status = stayBookings[id].status
             \/ <<stayBookings[id].status, stayBookings'[id].status>> \in StayEdges
       /\ \A id \in DOMAIN foodBookings \cap DOMAIN foodBookings' :
             \/ foodBookings'[id].status = foodBookings[id].status
             \/ <<foodBookings[id].status, foodBookings'[id].status>> \in FoodEdges
      ]_vars

\* C18: the booking a successful creation persists has status 'pending' and neither
\* a confirmation nor a cancellation date
C18_CreatedPending ==
    [][(response'.op = "create" /\ response'.result = "created")
       => IF response'.domain = "stay"
          THEN /\ stayBookings'[response'.id].status = "pending"
               /\ stayBookings'[response'.id].confirmation_date = Absent
               /\ stayBookings'[response'.id].cancellation_date = Absent
          ELSE /\ foodBookings'[response'.id].status = "pending"
               /\ foodBookings'[response'.id].confirmation_date = Absent
               /\ foodBookings'[response'.id].cancellation_date = Absent
      ]_vars

\* C20: cancel of a stay booking whose status is 'checked_out' is rejected and leaves
\* status and cancellation_date as they were
C20_CancelRejectedWhenCheckedOut ==
    [][\A id \in DOMAIN stayBookings :
          (/\ response'.op = "cancel" /\ response'.domain = "stay" /\ response'.id = id
           /\ stayBookings[id].status = "checked_out")
          => /\ response'.result \in ErrorResults
             /\ stayBookings'[id].status = "checked_out"
             /\ stayBookings'[id].cancellation_date = stayBookings[id].cancellation_date
      ]_vars

\* C19: when a confirm and a cancel of the same booking have both finished and the
\* cancel reported success, the booking is as after one of the two serial orders:
\* it is 'cancelled', it has its cancellation_date, and it has a confirmation_date
\* exactly if the confirm reported success
C19_ConfirmCancelSerializable ==
    (/\ calls["confirm"].pc = "done" /\ calls["cancel"].pc = "done"
     /\ calls["confirm"].id = calls["cancel"].id
     /\ calls["confirm"].result \in {"ok", "bad_request"}
     /\ calls["cancel"].result = "ok")
    => LET b == stayBookings[calls["cancel"].id]
       IN /\ b.status = "cancelled"
          /\ b.cancellation_date # Absent
          /\ (calls["confirm"].result = "ok") <=> (b.confirmation_date # Absent)

\* C21: every persisted stay booking has check_out_date after check_in_date and
\* total_nights of at least 1, after creation and after every full or partial update
C21_DatesOrdered ==
    \A id \in DOMAIN stayBookings :
        /\ stayBookings[id].check_out_date > stayBookings[id].check_in_date
        /\ stayBookings[id].total_nights >= 1

\* C29: every booking that is 'confirmed' or in a later fulfilment state has
\* confirmation_date set, every 'cancelled' booking has cancellation_date set, and a
\* dining booking in 'preparing', 'ready', 'out_for_delivery', 'delivered' or
\* 'completed' has the timestamp of that state set
C29_TransitionsStamped ==
    /\ \A id \in DOMAIN stayBookings :
          LET b == stayBookings[id]
          IN /\ b.status \in {"confirmed", "checked_in", "checked_out"}
                    => b.confirmation_date # Absent
             /\ b.status = "cancelled" => b.cancellation_date # Absent
    /\ \A id \in DOMAIN foodBookings :
          LET b == foodBookings[id]
          IN /\ b.status \in {"confirmed", "preparing", "ready", "out_for_delivery",
                              "delivered", "completed"}
                    => b.confirmation_date # Absent
             /\ b.status = "cancelled" => b.cancellation_date # Absent
             /\ b.status = "preparing" => b.preparation_start_time # Absent
             /\ b.status = "ready" => b.ready_time # Absent
             /\ b.status = "out_for_delivery" => b.delivery_start_time # Absent
             /\ b.status \in {"delivered", "completed"} => b.completion_time # Absent

\* C30: the profile_id of every booking is the profile_id of the accommodation or
\* restaurant it books
C30_BookingTenantIsResourceTenant ==
    /\ \A id \in DOMAIN stayBookings :
          stayBookings[id].profile_id = catalog["accommodation"].profile_id
    /\ \A id \in DOMAIN foodBookings :
          foodBookings[id].profile_id = catalog["restaurant"].profile_id

\* C28: the subtotal of every dining booking is the sum over its order lines of
\* unit_price * quantity, 0 when it has none
C28_SubtotalIsSumOfLines ==
    \A id \in DOMAIN foodBookings :
        foodBookings[id].subtotal
           = SumTotalPrice({[i EXCEPT !.total_price = i.unit_price * i.quantity] :
                               i \in {x \in orderItems : x.booking = id}})

\* C22: a dining creation either persists the booking together with every order
\* line of the request, or, when a step after the first save fails, persists nothing
C22_CreateAllOrNothing ==
    [][\A data \in OrdersData :
          FoodCreate("u1", "None", data, NextId(lastId.food))
          => \/ /\ response'.result = "created"
                /\ response'.id \notin DOMAIN foodBookings
                /\ response'.id \in DOMAIN foodBookings'
                /\ {i.line : i \in {x \in orderItems' : x.booking = response'.id}}
                      = DOMAIN data.order_items
                /\ \A i \in orderItems' \ orderItems : i.booking = response'.id
             \/ /\ response'.result # "created"
                /\ foodBookings' = foodBookings
                /\ orderItems' = orderItems
      ]_vars

\* a creation with an order line that could not be stored has failed and left
\* neither its booking nor a line behind
C22_Witness ==
    /\ response = Resp("create", "food", 0, "server_error")
    /\ foodBookings = <<>>
    /\ orderItems = {}

\* C27: a new order line carries the menu item's catalog price as unit_price, whatever
\* the request supplied, and total_price = quantity * unit_price; no later step, a
\* change of the menu price included, changes an existing line or the subtotal of
\* an existing booking
C27_LinePricesFrozen ==
    [][/\ \A i \in orderItems' \ orderItems :
             /\ i.unit_price = menuPrice[i.menu_item]
             /\ i.total_price = i.quantity * i.unit_price
       /\ \A i \in orderItems : i.booking \in DOMAIN foodBookings' => i \in orderItems'
       /\ \A id \in DOMAIN foodBookings \cap DOMAIN foodBookings' :
             foodBookings'[id].subtotal = foodBookings[id].subtotal
      ]_vars

\* C23: a creation that persists a booking names only resources that are switched
\* on: the accommodation and the room type of a stay booking are active, the
\* restaurant of a dining booking is active and its table is available
C23_CreatedOnlyOnActiveResource ==
    [][(response'.op = "create" /\ response'.result = "created")
       => /\ response'.domain = "stay"
             => /\ catalog["accommodation"].is_active
                /\ stayBookings'[response'.id].room_type = "rt1"
                      => catalog["room_type"].is_active
          /\ response'.domain = "food"
             => /\ catalog["restaurant"].is_active
                /\ foodBookings'[response'.id].table = "t1"
                      => catalog["table"].is_active
      ]_vars

\* C24: no two distinct bookings of one table with the same reservation_date and
\* reservation_time are both in a confirmed/active status
C24_NoDoubleBookedTable ==
    \A i, j \in DOMAIN foodBookings :
        (/\ i # j
         /\ foodBookings[i].table = "t1" /\ foodBookings[j].table = "t1"
         /\ foodBookings[i].reservation_date = foodBookings[j].reservation_date
         /\ foodBookings[i].reservation_time = foodBookings[j].reservation_time)
        => ~(/\ foodBookings[i].status \in BlockingStatuses
             /\ foodBookings[j].status \in BlockingStatuses)

\* C25: the table query for (date, time, party_size) returns exactly the tables that
\* are available, seat the party, and have no single booking with that date, that
\* time and a confirmed/active status
C25_TableQueryExact ==
    [][\A d \in Days : \A t \in Times : \A party_size \in {2, TableCapacity + 1} :
          (RestaurantAvailability(d, t, party_size) /\ response'.result = "ok")
          => (ListRow("table", "t1", Absent, catalog["table"].capacity, TRUE) \in listing'
              <=> /\ catalog["table"].present
                  /\ catalog["table"].is_active
                  /\ catalog["table"].capacity >= party_size
                  /\ ~\E i \in DOMAIN foodBookings :
                        /\ foodBookings[i].table = "t1"
                        /\ foodBookings[i].reservation_date = d
                        /\ foodBookings[i].reservation_time = t
                        /\ foodBookings[i].status \in BlockingStatuses)
      ]_vars

\* C26: a date without a calendar row counts as fully available: the calendar query
\* reports it with the full capacity, and available_for_dates returns an active
\* accommodation that has no calendar row at all
C26_MissingRowMeansAvailable ==
    [][/\ \A start_date, end_date \in Days :
             (AccommodationAvailability(start_date, end_date) /\ response'.result = "ok")
             => \A d \in start_date..end_date :
                   (\A rt \in RoomTypes : <<rt, d>> \notin DOMAIN availability)
                   => ListRow("calendar", "None", d, AccTotalRooms, TRUE) \in listing'
       /\ \A check_in, check_out \in Days :
             (/\ AvailableForDates(check_in, check_out)
              /\ catalog["accommodation"].present
              /\ catalog["accommodation"].is_active
              /\ availability = <<>>)
             => listing' # {}
      ]_vars

====
